---- MODULE Spec2Model ----
(***************************************************************************)
(* Video Production Assistant (5_Symbols/video_production_assistant.py):   *)
(* requirement parsing helpers, the two scoring functions and the          *)
(* per-track search / score / select / download / report loop.             *)
(*                                                                         *)
(* Text is modelled as a sequence of one-character strings, so that        *)
(* lower(), split(), replace(), substring tests and int() are computed     *)
(* the way Python computes them.  Scores are kept in hundredths of a       *)
(* point (Points(25) is the 25-point cap), which is exact for ratings      *)
(* given in tenths of a star.                                              *)
(***************************************************************************)
EXTENDS Integers, Sequences, FiniteSets, TLC

VARIABLES
    bpm,            \* MusicRequirement.bpm, the raw BPM text
    bpm_range,      \* what get_bpm_range returned for it
    time_range,     \* the stripped text of the **Time:** line
    duration,       \* the duration parse_music_requirements derived from it
    req,            \* the MusicRequirement being scored
    effect_name,    \* the effect name being scored
    sound,          \* the candidate (sound_data)
    score,          \* the running totals of the last score_match call
    prev,           \* the running totals before the last tag was added
    requirements,   \* process_music_tracks: the parsed requirements
    top_n,          \* process_music_tracks: the caller's top_n
    idx,            \* index of the requirement the loop is at
    pc,             \* position inside the loop body
    results,        \* what search_freesound returned for this requirement
    scored_results, \* the (score, sound) list, after the sort
    match_i,        \* the download loop's enumerate index
    downloads,      \* download_sound calls made for this requirement
    search_log,     \* the searches issued so far, in order
    report_files,   \* track numbers whose scoring report file was written
    last_report,    \* the report written last
    document,       \* process_sound_effects: the text of source_music.md
    sfx_requirements, \* what parse_sfx_requirements returned
    service,        \* what the search and download services answer
    sfx_top_n,      \* process_sound_effects: the caller's top_n
    sfx_pc,         \* position inside process_sound_effects
    category_dirs,  \* the category directories made, in order
    sfx_searches,   \* the effect searches issued, in order
    sfx_downloads   \* the download_sound calls made for effects, in order

bpmVars   == <<bpm, bpm_range>>
durVars   == <<time_range, duration>>
scoreVars == <<req, effect_name, sound, score, prev>>
runVars   == <<requirements, top_n, idx, pc, results, scored_results, match_i,
               downloads, search_log, report_files, last_report>>
sfxVars   == <<document, sfx_requirements, service, sfx_top_n, sfx_pc,
               category_dirs, sfx_searches, sfx_downloads>>
vars      == <<bpmVars, durVars, scoreVars, runVars, sfxVars>>

(***************************************************************************)
(* Python text primitives                                                  *)
(***************************************************************************)
UpperCase == <<"A","B","C","D","E","F","G","H","I","J","K","L","M",
               "N","O","P","Q","R","S","T","U","V","W","X","Y","Z">>
LowerCase == <<"a","b","c","d","e","f","g","h","i","j","k","l","m",
               "n","o","p","q","r","s","t","u","v","w","x","y","z">>
Digits    == <<"0","1","2","3","4","5","6","7","8","9">>
Whitespace == {" "}

\* str.lower(), one character
ToLower == [u \in {UpperCase[i] : i \in 1..26} |->
               LowerCase[CHOOSE i \in 1..26 : UpperCase[i] = u]]
LowerChar(c) == IF c \in DOMAIN ToLower THEN ToLower[c] ELSE c

\* str.lower()
Lower(s) == [i \in 1..Len(s) |-> LowerChar(s[i])]

\* str.replace(old, new) for single characters
ReplaceChar(s, old, new) == [i \in 1..Len(s) |-> IF s[i] = old THEN new ELSE s[i]]

\* sub in s, for two strings
Contains(sub, s) ==
    \E i \in 0..(Len(s) - Len(sub)) : SubSeq(s, i + 1, i + Len(sub)) = sub

\* x in lst, for a list
Member(x, lst) == \E i \in 1..Len(lst) : lst[i] = x

\* position of the first occurrence of sep in s at or after from, 0 if none
FindFrom(sep, s, from) ==
    LET hits == {i \in from..(Len(s) - Len(sep) + 1) : SubSeq(s, i, i + Len(sep) - 1) = sep}
    IN IF hits = {} THEN 0 ELSE CHOOSE i \in hits : \A j \in hits : i <= j

\* str.split(sep): every occurrence splits, empty pieces are kept
RECURSIVE SplitOn(_, _)
SplitOn(s, sep) ==
    LET p == FindFrom(sep, s, 1)
    IN IF p = 0 THEN <<s>>
       ELSE <<SubSeq(s, 1, p - 1)>> \o SplitOn(SubSeq(s, p + Len(sep), Len(s)), sep)

\* str.split(): runs of whitespace separate, no empty pieces
RECURSIVE SplitWords(_)
SplitWords(s) ==
    IF s = <<>> THEN <<>>
    ELSE IF s[1] \in Whitespace THEN SplitWords(Tail(s))
    ELSE LET ends == {i \in 1..Len(s) : s[i] \in Whitespace}
             e == IF ends = {} THEN Len(s) + 1
                  ELSE CHOOSE i \in ends : \A j \in ends : i <= j
         IN <<SubSeq(s, 1, e - 1)>> \o SplitWords(SubSeq(s, e, Len(s)))

\* str.strip()
RECURSIVE Strip(_)
Strip(s) ==
    IF s = <<>> THEN s
    ELSE IF s[1] \in Whitespace THEN Strip(Tail(s))
    ELSE IF s[Len(s)] \in Whitespace THEN Strip(SubSeq(s, 1, Len(s) - 1))
    ELSE s

IsDigit(c) == \E d \in 1..10 : Digits[d] = c
DigitValue(c) == (CHOOSE d \in 1..10 : Digits[d] = c) - 1

RECURSIVE DigitsValue(_)
DigitsValue(ds) ==
    IF ds = <<>> THEN 0
    ELSE 10 * DigitsValue(SubSeq(ds, 1, Len(ds) - 1)) + DigitValue(ds[Len(ds)])

ValueError == [ok |-> FALSE, val |-> 0]

\* int(s): surrounding whitespace is dropped, one sign is allowed, then one
\* or more decimal digits; anything else raises ValueError.
ParseInt(s) ==
    LET t == Strip(s)
        signed == t # <<>> /\ t[1] \in {"+", "-"}
        ds == IF signed THEN Tail(t) ELSE t
    IN IF ds # <<>> /\ \A i \in 1..Len(ds) : IsDigit(ds[i])
       THEN [ok |-> TRUE,
             val |-> IF signed /\ t[1] = "-" THEN 0 - DigitsValue(ds) ELSE DigitsValue(ds)]
       ELSE ValueError

\* all strings over alphabet of length at most n
RECURSIVE StringsUpTo(_, _)
StringsUpTo(alphabet, n) ==
    IF n = 0 THEN {<<>>}
    ELSE LET shorter == StringsUpTo(alphabet, n - 1)
         IN shorter \cup {Append(s, c) : s \in shorter, c \in alphabet}

\* sep.join(parts)
RECURSIVE Join(_, _)
Join(parts, sep) ==
    IF parts = <<>> THEN <<>>
    ELSE IF Len(parts) = 1 THEN parts[1]
    ELSE parts[1] \o sep \o Join(Tail(parts), sep)

None == [none |-> TRUE]
\* a result not computed yet; a computed one is held as a tuple
Unset == <<>>

(***************************************************************************)
(* MusicRequirement.get_bpm_range                                          *)
(***************************************************************************)
BpmFallbackLow == 80
BpmFallbackHigh == 140
BpmSpread == 5

BpmRangeLastPart(b) ==
    IF Contains(<<"-">>, b)
    THEN LET bpm_parts == SplitOn(b, <<"-">>)
             lo == ParseInt(bpm_parts[1])
             hi == ParseInt(bpm_parts[Len(bpm_parts)])
         IN IF lo.ok /\ hi.ok THEN <<lo.val, hi.val>>
            ELSE <<BpmFallbackLow, BpmFallbackHigh>>
    ELSE LET n == ParseInt(b)
         IN IF n.ok THEN <<n.val - BpmSpread, n.val + BpmSpread>>
            ELSE <<BpmFallbackLow, BpmFallbackHigh>>

\* The bare except turns every failure (ValueError of int, IndexError of
\* bpm_parts[1]) into the default range.
get_bpm_range(b) ==
    IF Contains(<<"-">>, b)
    THEN LET bpm_parts == SplitOn(b, <<"-">>)
         IN IF Len(bpm_parts) < 2 THEN <<BpmFallbackLow, BpmFallbackHigh>>
            ELSE LET lo == ParseInt(bpm_parts[1])
                     hi == ParseInt(bpm_parts[2])
                 IN IF lo.ok /\ hi.ok THEN <<lo.val, hi.val>>
                    ELSE <<BpmFallbackLow, BpmFallbackHigh>>
    ELSE LET n == ParseInt(b)
         IN IF n.ok THEN <<n.val - BpmSpread, n.val + BpmSpread>>
            ELSE <<BpmFallbackLow, BpmFallbackHigh>>

MaxBpmLen == 5
BpmAlphabet == {"1", "2", "-", "a", " "}
BpmExamples == { <<"a", "b", "c">>, <<"1", "2", "0">>,
                 <<"1", "0", "0", "-", "1", "4", "0">> }
BpmInputs == StringsUpTo(BpmAlphabet, MaxBpmLen) \cup BpmExamples

(***************************************************************************)
(* parse_music_requirements (duration) and _parse_duration                 *)
(***************************************************************************)
DefaultDuration == 30

\* time_to_seconds: parts[0..2] are read, further parts are never looked at;
\* fewer than three parts is an IndexError, a non-integer part a ValueError.
time_to_seconds(t) ==
    LET parts == SplitOn(t, <<":">>)
    IN IF Len(parts) < 3 THEN ValueError
       ELSE LET h == ParseInt(parts[1])
                m == ParseInt(parts[2])
                sec == ParseInt(parts[3])
            IN IF h.ok /\ m.ok /\ sec.ok
               THEN [ok |-> TRUE, val |-> h.val * 3600 + m.val * 60 + sec.val]
               ELSE ValueError

StartMinusEnd(start_time, end_time) ==
    LET e == time_to_seconds(end_time)
        s == time_to_seconds(start_time)
    IN IF e.ok /\ s.ok THEN s.val - e.val ELSE DefaultDuration

\* _parse_duration: the bare except turns every failure into 30
parse_duration(start_time, end_time) ==
    LET e == time_to_seconds(end_time)
        s == time_to_seconds(start_time)
    IN IF e.ok /\ s.ok THEN e.val - s.val ELSE DefaultDuration

RangeSeparator == <<" ", "-", " ">>

\* parse_music_requirements, "Calculate duration from time range"
derive_duration(tr) ==
    LET time_parts == SplitOn(tr, RangeSeparator)
    IN IF Len(time_parts) = 2
       THEN parse_duration(time_parts[1], time_parts[2])
       ELSE DefaultDuration

MaxComponents == 4
TimeComponents == { <<"0">>, <<"1", "0">>, <<"x">> }

RECURSIVE ComponentLists(_)
ComponentLists(n) ==
    IF n = 0 THEN {<<>>}
    ELSE LET shorter == ComponentLists(n - 1)
         IN shorter \cup {Append(l, c) : l \in shorter, c \in TimeComponents}

\* one side of a time range: one to MaxComponents components joined by ":"
Sides == {Join(l, <<":">>) : l \in ComponentLists(MaxComponents) \ {<<>>}}
ClockSides == {Join(l, <<":">>) : l \in {c \in ComponentLists(3) : Len(c) = 3}}
BadRange == <<"b", "a", "d", "-", "r", "a", "n", "g", "e">>
TimeRanges ==
    Sides \cup {BadRange, <<>>}
    \cup {Join(<<a, b>>, RangeSeparator) : a \in Sides, b \in Sides}
    \cup {Join(<<a, b, a>>, RangeSeparator) : a \in ClockSides, b \in ClockSides}

(***************************************************************************)
(* Specifications of the two parsing helpers                               *)
(***************************************************************************)
IdleBpm == bpm = <<>> /\ bpm_range = Unset
IdleDur == time_range = <<>> /\ duration = Unset
IdleScore ==
    /\ req = None /\ effect_name = <<>> /\ sound = None
    /\ score = None /\ prev = None
IdleSfx ==
    /\ document = <<>> /\ sfx_requirements = Unset /\ service = None
    /\ sfx_top_n = 0 /\ sfx_pc = "idle"
    /\ category_dirs = <<>> /\ sfx_searches = <<>> /\ sfx_downloads = <<>>
IdleRun ==
    /\ requirements = <<>> /\ top_n = 0 /\ idx = 0 /\ pc = "idle"
    /\ results = <<>> /\ scored_results = <<>> /\ match_i = 0
    /\ downloads = <<>> /\ search_log = <<>> /\ report_files = {}
    /\ last_report = None

InitBpm ==
    /\ bpm \in BpmInputs /\ bpm_range = Unset
    /\ IdleDur /\ IdleScore /\ IdleRun /\ IdleSfx

GetBpmRange ==
    /\ bpm_range = Unset
    /\ bpm_range' = get_bpm_range(bpm)
    /\ UNCHANGED <<bpm, durVars, scoreVars, runVars, sfxVars>>

NextBpm == GetBpmRange
SpecBpm == InitBpm /\ [][NextBpm]_vars

InitDuration ==
    /\ time_range \in TimeRanges /\ duration = Unset
    /\ IdleBpm /\ IdleScore /\ IdleRun /\ IdleSfx

ParseDuration ==
    /\ duration = Unset
    /\ duration' = <<derive_duration(time_range)>>
    /\ UNCHANGED <<time_range, bpmVars, scoreVars, runVars, sfxVars>>

NextDuration == ParseDuration
SpecDuration == InitDuration /\ [][NextDuration]_vars

(***************************************************************************)
(* Claims about get_bpm_range (under SpecBpm)                              *)
(***************************************************************************)
FirstHyphen(b) == FindFrom(<<"-">>, b, 1)
\* the hyphen after the first one, or one past the end of the text
SecondHyphen(b) ==
    LET p == FindFrom(<<"-">>, b, FirstHyphen(b) + 1)
    IN IF p = 0 THEN Len(b) + 1 ELSE p
Fallback == <<80, 140>>
PairOrFallback(lo, hi) == IF lo.ok /\ hi.ok THEN <<lo.val, hi.val>> ELSE Fallback
SingleOrFallback(n) == IF n.ok THEN <<n.val - 5, n.val + 5>> ELSE Fallback
BpmExamplesHold ==
    /\ bpm = <<"a", "b", "c">> => bpm_range = <<80, 140>>
    /\ bpm = <<"1", "2", "0">> => bpm_range = <<115, 125>>
    /\ bpm = <<"1", "0", "0", "-", "1", "4", "0">> => bpm_range = <<100, 140>>

\* C7 as stated: a text with a hyphen is split once, at its first hyphen, and
\* both sides are parsed as integers; otherwise b gives (b-5, b+5); every
\* parse failure gives (80, 140).
C7_SplitOnce ==
    bpm_range # Unset =>
        /\ BpmExamplesHold
        /\ bpm_range =
             IF FirstHyphen(bpm) # 0
             THEN PairOrFallback(ParseInt(SubSeq(bpm, 1, FirstHyphen(bpm) - 1)),
                                 ParseInt(SubSeq(bpm, FirstHyphen(bpm) + 1, Len(bpm))))
             ELSE SingleOrFallback(ParseInt(bpm))

\* C7 amended: get_bpm_range always returns a pair; a text with a hyphen is
\* split at every hyphen and the first two pieces (the text before the first
\* hyphen, and the text between the first and the second hyphen or the end)
\* are parsed as integers and returned as (low, high), later pieces being
\* ignored; otherwise b gives (b-5, b+5); every parse failure gives (80, 140);
\* "abc" gives (80, 140), "120" (115, 125) and "100-140" (100, 140).
C7_FirstTwoPieces ==
    bpm_range # Unset =>
        /\ Len(bpm_range) = 2
        /\ BpmExamplesHold
        /\ bpm_range =
             IF FirstHyphen(bpm) # 0
             THEN PairOrFallback(ParseInt(SubSeq(bpm, 1, FirstHyphen(bpm) - 1)),
                                 ParseInt(SubSeq(bpm, FirstHyphen(bpm) + 1,
                                                 SecondHyphen(bpm) - 1)))
             ELSE SingleOrFallback(ParseInt(bpm))

\* a text with two hyphens whose first two pieces were returned
C7_Witness ==
    /\ bpm = <<"1", "-", "2", "-", "1">>
    /\ bpm_range = <<1, 2>>

(***************************************************************************)
(* Claims about the duration derivation (under SpecDuration)               *)
(***************************************************************************)
RangeParts == SplitOn(time_range, RangeSeparator)
Components(side) == SplitOn(side, <<":">>)
Seconds(side) ==
    3600 * ParseInt(Components(side)[1]).val
    + 60 * ParseInt(Components(side)[2]).val
    + ParseInt(Components(side)[3]).val
\* the side is exactly three integers h:m:s
ThreeNumeric(side) ==
    /\ Len(Components(side)) = 3
    /\ \A k \in 1..3 : ParseInt(Components(side)[k]).ok
\* the side starts with three integers h:m:s, whatever follows them
StartsWithThreeNumeric(side) ==
    /\ Len(Components(side)) >= 3
    /\ \A k \in 1..3 : ParseInt(Components(side)[k]).ok

\* C8 as stated: two parts, each of exactly three numeric components, give
\* end - start (negative when the end is earlier); everything else gives 30.
C8_ExactlyThree ==
    duration # Unset =>
        /\ time_range = BadRange => duration = <<30>>
        /\ duration[1] =
             IF Len(RangeParts) = 2 /\ ThreeNumeric(RangeParts[1])
                /\ ThreeNumeric(RangeParts[2])
             THEN Seconds(RangeParts[2]) - Seconds(RangeParts[1])
             ELSE 30

\* C8 amended: the derivation always yields a number; when the range splits
\* at " - " into exactly two parts and each part has at least three
\* colon-separated components of which the first three are integers (further
\* components are ignored), the duration is end - start in seconds, left
\* negative when the end is earlier; in every other case it is 30, as for
\* "bad-range".
C8_FirstThree ==
    duration # Unset =>
        /\ Len(duration) = 1
        /\ time_range = BadRange => duration = <<30>>
        /\ duration[1] =
             IF Len(RangeParts) = 2 /\ StartsWithThreeNumeric(RangeParts[1])
                /\ StartsWithThreeNumeric(RangeParts[2])
             THEN Seconds(RangeParts[2]) - Seconds(RangeParts[1])
             ELSE 30

\* a range whose start has a fourth component and whose end is earlier
C8_Witness ==
    /\ duration # Unset
    /\ Len(RangeParts) = 2
    /\ Len(Components(RangeParts[1])) = 4
    /\ duration[1] < 0

(***************************************************************************)
(* MusicRequirement.score_match                                            *)
(*                                                                         *)
(* A requirement is [genre, mood, instruments, duration]; duration is      *)
(* <<>> for None and <<d>> for a number.  A candidate (sound_data) is      *)
(* [id, name, tags, description, duration, avg_rating, num_ratings,        *)
(* license], avg_rating in tenths of a star.  Every score is in            *)
(* hundredths of a point.                                                  *)
(***************************************************************************)
Points(p) == 100 * p
Min(a, b) == IF a <= b THEN a ELSE b
Abs(x) == IF x < 0 THEN 0 - x ELSE x

\* keyword in name or keyword in tags or keyword in description:
\* a substring of the name or of the description, or equal to a whole tag
\* name, tags, description as score_match reads them: lower-cased once
Lowered(sd) ==
    [name |-> Lower(sd.name),
     tags |-> [i \in 1..Len(sd.tags) |-> Lower(sd.tags[i])],
     description |-> Lower(sd.description),
     duration |-> sd.duration, avg_rating |-> sd.avg_rating,
     num_ratings |-> sd.num_ratings, license |-> sd.license]

KeywordHit(keyword, sd) ==
    \/ Contains(keyword, sd.name)
    \/ Member(keyword, sd.tags)
    \/ Contains(keyword, sd.description)

\* how many passes of "for keyword in keywords" take the if branch
Hits(keywords, sd) == Cardinality({i \in 1..Len(keywords) : KeywordHit(keywords[i], sd)})

genre_keywords(r) == SplitWords(Lower(r.genre))
mood_keywords(r) == SplitWords(ReplaceChar(Lower(r.mood), ",", " "))
inst_keywords(r) == SplitWords(ReplaceChar(Lower(r.instruments), ",", " "))

GenreStepNoCap(r, sd) == Points(5) * Hits(genre_keywords(r), sd)

\* Genre matching: +5 per matched keyword, then score = min(score, 25)
GenreStep(r, sd) == Min(Points(5) * Hits(genre_keywords(r), sd), Points(25))

MoodStepOwnCap(running, r, sd) ==
    running + Min(Points(4) * Hits(mood_keywords(r), sd), Points(25))

\* Mood matching: +4 per matched keyword, then score = min(score, 50)
MoodStep(running, r, sd) ==
    Min(running + Points(4) * Hits(mood_keywords(r), sd), Points(50))

\* Instrument matching: +3 per matched keyword, then score = min(score, 65)
InstrumentStep(running, r, sd) ==
    Min(running + Points(3) * Hits(inst_keywords(r), sd), Points(65))

DurationStepLinear(running, r, sd) ==
    IF r.duration # <<>> /\ r.duration[1] # 0 /\ sd.duration > 0
    THEN running + Points(10) - Points(Abs(r.duration[1] - sd.duration))
    ELSE running

\* Duration matching: "if self.duration and duration > 0"
DurationStep(running, r, sd) ==
    IF r.duration # <<>> /\ r.duration[1] # 0 /\ sd.duration > 0
    THEN LET duration_diff == Abs(r.duration[1] - sd.duration)
         IN IF duration_diff < 5 THEN running + Points(10)
            ELSE IF duration_diff < 10 THEN running + Points(7)
            ELSE IF duration_diff < 20 THEN running + Points(4)
            ELSE running
    ELSE running

RatingStepNoWeightCap(running, sd) ==
    IF sd.avg_rating > 0
    THEN running + sd.avg_rating * sd.num_ratings * 2
    ELSE running

\* Rating quality: (avg_rating / 5.0) * 10 * min(num_ratings / 10, 1.0);
\* with avg_rating in tenths this is avg * min(num, 10) * 2 hundredths
RatingStep(running, sd) ==
    IF sd.avg_rating > 0
    THEN running + sd.avg_rating * Min(sd.num_ratings, 10) * 2
    ELSE running

\* License preference (case-sensitive substring tests)
LicenseStep(running, sd) ==
    IF \/ Contains(<<"C", "r", "e", "a", "t", "i", "v", "e", " ", "C", "o", "m", "m", "o", "n", "s", " ", "0">>, sd.license)
       \/ Contains(<<"C", "C", "0">>, sd.license)
    THEN running + Points(5)
    ELSE IF Contains(<<"A", "t", "t", "r", "i", "b", "u", "t", "i", "o", "n">>, sd.license)
    THEN running + Points(3)
    ELSE running

\* MusicRequirement.score_match, with the running score after each step
music_score_match(r, sound_data) ==
    LET sd == Lowered(sound_data)
        genre == GenreStep(r, sd)
        mood == MoodStep(genre, r, sd)
        instruments == InstrumentStep(mood, r, sd)
        dur == DurationStep(instruments, r, sd)
        rating == RatingStep(dur, sd)
        license == LicenseStep(rating, sd)
    IN [fn |-> "music", genre |-> genre, mood |-> mood,
        instruments |-> instruments, duration |-> dur, rating |-> rating,
        license |-> license, total |-> Min(license, Points(100))]

(***************************************************************************)
(* SoundEffectRequirement.score_match                                      *)
(***************************************************************************)
effect_keywords(effect) == SplitWords(Lower(effect))

NameStepAnyFirst(effect, sd) ==
    LET kws == effect_keywords(effect)
        name == sd.name
    IN IF \E i \in 1..Len(kws) : Contains(kws[i], name) THEN Points(20)
       ELSE IF \A i \in 1..Len(kws) : Contains(kws[i], name) THEN Points(40)
       ELSE 0

\* Exact name match: all(...) gives 40, elif any(...) gives 20
NameStep(effect, sd) ==
    LET kws == effect_keywords(effect)
        name == sd.name
    IN IF \A i \in 1..Len(kws) : Contains(kws[i], name) THEN Points(40)
       ELSE IF \E i \in 1..Len(kws) : Contains(kws[i], name) THEN Points(20)
       ELSE 0

\* Tag matching: keywords that are a substring of at least one tag
TagStep(running, effect, sd) ==
    LET kws == effect_keywords(effect)
        tag_matches == Cardinality({i \in 1..Len(kws) :
            \E t \in 1..Len(sd.tags) : Contains(kws[i], sd.tags[t])})
    IN running + Min(tag_matches * Points(10), Points(30))

\* Description matching
DescriptionStep(running, effect, sd) ==
    LET kws == effect_keywords(effect)
        desc_matches == Cardinality({i \in 1..Len(kws) :
            Contains(kws[i], sd.description)})
    IN running + Min(desc_matches * Points(5), Points(15))

\* Quality score: (avg_rating / 5.0) * 15, avg_rating in tenths
QualityStep(running, sd) == running + sd.avg_rating * 30

\* SoundEffectRequirement.score_match, with the running score after each step
sfx_score_match(sound_data, effect) ==
    LET sd == Lowered(sound_data)
        name == NameStep(effect, sd)
        tags == TagStep(name, effect, sd)
        description == DescriptionStep(tags, effect, sd)
        quality == QualityStep(description, sd)
    IN [fn |-> "sfx", name |-> name, tags |-> tags,
        description |-> description, quality |-> quality,
        total |-> Min(quality, Points(100))]

(***************************************************************************)
(* Inputs of the scoring specification                                     *)
(***************************************************************************)
MaxKeywords == 7
\* how often a keyword list repeats its keyword: none, once, past every cap
KeywordCounts == {0, 1, MaxKeywords}

Repeat(word, n) == [i \in 1..n |-> word]

ScenarioRequirement ==
    [genre |-> <<"o", "r", "c", "h", "e", "s", "t", "r", "a", "l", " ", "c", "i", "n", "e", "m", "a", "t", "i", "c">>, mood |-> <<"e", "p", "i", "c", ",", " ", "t", "r", "i", "u", "m", "p", "h", "a", "n", "t">>,
     instruments |-> <<"s", "t", "r", "i", "n", "g", "s", ",", " ", "b", "r", "a", "s", "s">>, duration |-> <<30>>]

\* genre "orchestral ... orchestral [epic]", mood "Epic, ..., Epic",
\* instruments "strings, ..., strings"
FamilyRequirement(g, m, i, tail) ==
    [genre |-> Join(Repeat(<<"o", "r", "c", "h", "e", "s", "t", "r", "a", "l">>, g) \o tail, <<" ">>),
     mood |-> Join(Repeat(<<"E", "p", "i", "c">>, m), <<",", " ">>),
     instruments |-> Join(Repeat(<<"s", "t", "r", "i", "n", "g", "s">>, i), <<",", " ">>),
     duration |-> <<30>>]

FamilyRequirements ==
    {FamilyRequirement(g, m, i, <<>>) :
        g \in KeywordCounts, m \in KeywordCounts, i \in KeywordCounts}
    \cup {FamilyRequirement(g, 1, 0, <<<<"e", "p", "i", "c">>>>) : g \in KeywordCounts}

\* the same requirement built without a duration, and with a zero one
UntimedRequirements ==
    {[ScenarioRequirement EXCEPT !.duration = d] : d \in {<<>>, <<0>>}}

MusicRequirements == {ScenarioRequirement} \cup FamilyRequirements \cup UntimedRequirements

ScenarioSound ==
    [id |-> 1, name |-> <<"E", "p", "i", "c", " ", "O", "r", "c", "h", "e", "s", "t", "r", "a", "l", " ", "S", "t", "r", "i", "n", "g", "s">>,
     tags |-> <<<<"e", "p", "i", "c">>, <<"o", "r", "c", "h", "e", "s", "t", "r", "a", "l">>, <<"s", "t", "r", "i", "n", "g", "s">>>>,
     description |-> <<>>, duration |-> 32, avg_rating |-> 45,
     num_ratings |-> 20, license |-> <<"C", "C", "0">>]

SoundNames == {<<"E", "p", "i", "c", " ", "O", "r", "c", "h", "e", "s", "t", "r", "a", "l", " ", "S", "t", "r", "i", "n", "g", "s">>, <<"O", "r", "c", "h", "e", "s", "t", "r", "a", "l", " ", "T", "h", "e", "m", "e">>,
               <<"G", "l", "a", "s", "s", " ", "S", "h", "a", "t", "t", "e", "r", "i", "n", "g", " ", "S", "o", "u", "n", "d">>}
SoundTags == {<<>>, <<<<"e", "p", "i", "c">>, <<"o", "r", "c", "h", "e", "s", "t", "r", "a", "l">>, <<"s", "t", "r", "i", "n", "g", "s">>>>, <<<<"S", "t", "r", "i", "n", "g", "s">>>>}
SoundDescriptions == {<<>>, <<"B", "r", "a", "s", "s", " ", "a", "n", "d", " ", "s", "t", "r", "i", "n", "g", "s">>}
SoundDurations == {0, 3, 32, 38, 45, 60}
\* (avg_rating in tenths, num_ratings)
SoundRatings == {<<0, 0>>, <<45, 20>>, <<50, 5>>}
SoundLicenses == {<<>>, <<"C", "C", "0">>, <<"A", "t", "t", "r", "i", "b", "u", "t", "i", "o", "n">>, <<"C", "r", "e", "a", "t", "i", "v", "e", " ", "C", "o", "m", "m", "o", "n", "s", " ", "0">>}
\* (duration, rating, license): every duration, and every rating with every
\* license
SoundFigures ==
    {<<s, <<45, 20>>, <<"C", "C", "0">>>> : s \in SoundDurations}
    \cup {<<32, r, l>> : r \in SoundRatings, l \in SoundLicenses}

MusicSounds ==
    {[id |-> 1, name |-> n, tags |-> t, description |-> d, duration |-> f[1],
      avg_rating |-> f[2][1], num_ratings |-> f[2][2], license |-> f[3]] :
        n \in SoundNames, t \in SoundTags, d \in SoundDescriptions,
        f \in SoundFigures}

EffectNames == {<<"g", "l", "a", "s", "s", " ", "b", "r", "e", "a", "k">>, <<"G", "l", "a", "s", "s">>, <<"d", "o", "o", "r", " ", "s", "l", "a", "m", " ", "w", "o", "o", "d", " ", "c", "r", "e", "a", "k">>, <<>>}
EffectSoundNames == {<<"G", "l", "a", "s", "s", " ", "S", "h", "a", "t", "t", "e", "r", "i", "n", "g", " ", "S", "o", "u", "n", "d">>, <<"G", "l", "a", "s", "s", " ", "B", "r", "e", "a", "k">>,
                     <<"D", "o", "o", "r", " ", "s", "l", "a", "m", ",", " ", "w", "o", "o", "d", " ", "c", "r", "e", "a", "k">>, <<"R", "a", "i", "n">>}
EffectSoundTags == {<<>>, <<<<"g", "l", "a", "s", "s">>, <<"B", "r", "e", "a", "k", "i", "n", "g">>>>,
                    <<<<"d", "o", "o", "r", "-", "s", "l", "a", "m">>, <<"w", "o", "o", "d">>, <<"c", "r", "e", "a", "k", "y">>>>}
EffectSoundDescriptions == {<<>>, <<"A", " ", "g", "l", "a", "s", "s", " ", "b", "r", "e", "a", "k">>, <<"d", "o", "o", "r", " ", "s", "l", "a", "m", " ", "w", "o", "o", "d", " ", "c", "r", "e", "a", "k">>}
EffectSoundRatings == {0, 25, 50}

EffectSounds ==
    {[id |-> 1, name |-> n, tags |-> t, description |-> d, duration |-> 0,
      avg_rating |-> r, num_ratings |-> 0, license |-> <<>>] :
        n \in EffectSoundNames, t \in EffectSoundTags,
        d \in EffectSoundDescriptions, r \in EffectSoundRatings}

(***************************************************************************)
(* Specification of the two scoring functions                              *)
(***************************************************************************)
InitScore ==
    /\ \/ req \in MusicRequirements /\ sound \in MusicSounds /\ effect_name = <<>>
       \/ req = None /\ sound \in EffectSounds /\ effect_name \in EffectNames
    /\ score = None /\ prev = None
    /\ IdleBpm /\ IdleDur /\ IdleRun /\ IdleSfx

\* req.score_match(sound)
MusicScoreMatch ==
    /\ req # None /\ score = None
    /\ score' = music_score_match(req, sound)
    /\ UNCHANGED <<req, effect_name, sound, prev, bpmVars, durVars, runVars, sfxVars>>

\* req.score_match(sound, effect)
SfxScoreMatch ==
    /\ req = None /\ score = None
    /\ score' = sfx_score_match(sound, effect_name)
    /\ UNCHANGED <<req, effect_name, sound, prev, bpmVars, durVars, runVars, sfxVars>>

\* the same candidate with one of the requirement's genre keywords added to
\* its tags, scored again; prev keeps the score before and the tag added
AddGenreTag ==
    /\ req # None /\ score # None /\ prev = None
    /\ \E k \in 1..Len(genre_keywords(req)) :
         LET tag == genre_keywords(req)[k]
             added == [sound EXCEPT !.tags = Append(@, tag)]
         IN /\ sound' = added
            /\ prev' = [score |-> score, tag |-> tag]
            /\ score' = music_score_match(req, added)
    /\ UNCHANGED <<req, effect_name, bpmVars, durVars, runVars, sfxVars>>

NextScore == MusicScoreMatch \/ SfxScoreMatch \/ AddGenreTag
SpecScore == InitScore /\ [][NextScore]_vars

(***************************************************************************)
(* Claims about the scoring functions (under SpecScore)                    *)
(***************************************************************************)
\* C1: whatever the requirement, the effect name and the candidate (average
\* rating between 0 and 5 stars, rating count >= 0), the value either
\* score_match returns lies in [0, 100].
C1_ScoreInRange ==
    score # None => 0 <= score.total /\ score.total <= Points(100)

\* a sound effect whose four steps add up to exactly 100
C1_Witness ==
    /\ score # None /\ score.fn = "sfx"
    /\ sound.avg_rating = 50
    /\ score.name = Points(40)
    /\ score.total = Points(100)

\* matched keywords of each list, counted as the claim counts them
MatchedGenre == Hits(genre_keywords(req), Lowered(sound))
MatchedMood == Hits(mood_keywords(req), Lowered(sound))
MatchedInstruments == Hits(inst_keywords(req), Lowered(sound))

RunningCapTotal(g, m, i) == Min(6500, Min(5000, Min(2500, 500 * g) + 400 * m) + 300 * i)
OwnCapTotal(g, m, i) == Min(2500, 500 * g) + Min(2500, 400 * m) + Min(1500, 300 * i)

\* C5: the keyword part of the music score is a running-cap accumulation:
\* +5 per matched genre keyword then clamp to 25, +4 per matched mood keyword
\* then clamp to 50, +3 per matched instrument keyword then clamp to 65, so
\* that it equals min(65, min(50, min(25, 5g) + 4m) + 3i).
C5_RunningCap ==
    (score # None /\ score.fn = "music") =>
        /\ score.genre = Min(Points(25), Points(5) * MatchedGenre)
        /\ score.mood = Min(Points(50), score.genre + Points(4) * MatchedMood)
        /\ score.instruments =
             Min(Points(65), score.mood + Points(3) * MatchedInstruments)
        /\ score.instruments =
             RunningCapTotal(MatchedGenre, MatchedMood, MatchedInstruments)

\* seven matched mood keywords: the running cap lets them count 28 points,
\* which three independently capped contributions would not
C5_Witness ==
    /\ score # None /\ score.fn = "music"
    /\ MatchedGenre = 0 /\ MatchedMood = 7
    /\ score.mood = Points(28)
    /\ score.instruments #
         OwnCapTotal(MatchedGenre, MatchedMood, MatchedInstruments)

Scenario1 ==
    /\ req = ScenarioRequirement /\ sound = ScenarioSound
    /\ score # None

\* C6 as stated: the scenario-1 requirement and candidate score at least
\* 25 + 4 + 3 + 10 + 9 + 5 = 56.
C6_AtLeast56 == Scenario1 => score.total >= Points(56)

\* C6 amended: for the scenario-1 requirement and candidate the genre step
\* gives 5 (of "orchestral" and "cinematic" only "orchestral" is matched, and
\* a keyword counts once however many fields hold it), mood 4, instruments
\* 3, duration 10, rating 9 and license 5: the music score is exactly 36.
C6_Exactly36 ==
    Scenario1 =>
        /\ score.genre = Points(5)
        /\ score.mood = Points(5 + 4)
        /\ score.instruments = Points(5 + 4 + 3)
        /\ score.duration = Points(5 + 4 + 3 + 10)
        /\ score.rating = Points(5 + 4 + 3 + 10 + 9)
        /\ score.license = Points(5 + 4 + 3 + 10 + 9 + 5)
        /\ score.total = Points(36)

\* the scenario-1 pair, scored
C6_Witness == Scenario1 /\ score.fn = "music" /\ score.total < Points(56)

\* keywords of the effect name found in the candidate's name
EffectKeywordsInName ==
    Cardinality({i \in 1..Len(effect_keywords(effect_name)) :
        Contains(effect_keywords(effect_name)[i], Lower(sound.name))})

\* C9: the name step of the sound-effect score is +40 when every keyword of
\* the effect name is in the candidate's name, +20 when some but not all are,
\* +0 when none is; "glass break" against "Glass Shattering Sound" gets +20.
C9_NameTiers ==
    (score # None /\ score.fn = "sfx") =>
        /\ score.name =
             IF EffectKeywordsInName = Len(effect_keywords(effect_name)) THEN Points(40)
             ELSE IF EffectKeywordsInName >= 1 THEN Points(20)
             ELSE 0
        /\ (effect_name = <<"g", "l", "a", "s", "s", " ", "b", "r", "e", "a", "k">> /\ sound.name = <<"G", "l", "a", "s", "s", " ", "S", "h", "a", "t", "t", "e", "r", "i", "n", "g", " ", "S", "o", "u", "n", "d">>)
             => score.name = Points(20)

\* scenario 2: "glass" is in the name, "break" is not
C9_Witness ==
    /\ score # None /\ score.fn = "sfx"
    /\ effect_name = <<"g", "l", "a", "s", "s", " ", "b", "r", "e", "a", "k">>
    /\ sound.name = <<"G", "l", "a", "s", "s", " ", "S", "h", "a", "t", "t", "e", "r", "i", "n", "g", " ", "S", "o", "u", "n", "d">>
    /\ EffectKeywordsInName = 1
    /\ score.name = Points(20)

\* C10 as stated: adding a tag equal to a genre keyword never decreases the
\* music score, and once the genre step is at its 25-point cap the score is
\* unchanged by the addition.
C10_UnchangedAtCap ==
    prev # None =>
        /\ score.total >= prev.score.total
        /\ prev.score.genre >= Points(25) => score.total = prev.score.total

\* C10 amended: adding a tag equal to a genre keyword never decreases the
\* music score; once the genre step is at its 25-point cap the addition
\* leaves the genre step at 25, and leaves the score unchanged unless the
\* added tag is also one of the requirement's mood or instrument keywords
\* (it can then add mood or instrument points).
C10_GenreMonotone ==
    prev # None =>
        /\ score.total >= prev.score.total
        /\ prev.score.genre >= Points(25) =>
             /\ score.genre = prev.score.genre
             /\ (~Member(prev.tag, mood_keywords(req) \o inst_keywords(req)))
                  => score.total = prev.score.total

\* the genre step was at its cap and the added tag was a mood keyword too
C10_Witness ==
    /\ prev # None
    /\ prev.score.genre = Points(25)
    /\ score.genre = Points(25)
    /\ Member(prev.tag, mood_keywords(req))
    /\ score.total = prev.score.total + Points(4)

(***************************************************************************)
(* MusicRequirement.get_search_query                                       *)
(***************************************************************************)
Take(seq, n) == SubSeq(seq, 1, Min(n, Len(seq)))

get_search_query(r) ==
    LET genre_lower == Lower(r.genre)
    IN IF Contains(<<"o", "r", "c", "h", "e", "s", "t", "r", "a", "l">>, genre_lower) THEN <<"o", "r", "c", "h", "e", "s", "t", "r", "a", "l", " ", "c", "i", "n", "e", "m", "a", "t", "i", "c">>
       ELSE IF Contains(<<"e", "l", "e", "c", "t", "r", "o", "n", "i", "c">>, genre_lower) /\ Contains(<<"p", "o", "p">>, genre_lower)
       THEN <<"e", "l", "e", "c", "t", "r", "o", "n", "i", "c", " ", "m", "u", "s", "i", "c", " ", "l", "o", "o", "p">>
       ELSE IF Contains(<<"e", "l", "e", "c", "t", "r", "o", "n", "i", "c">>, genre_lower) THEN <<"e", "l", "e", "c", "t", "r", "o", "n", "i", "c", " ", "m", "u", "s", "i", "c">>
       ELSE IF Contains(<<"i", "n", "d", "u", "s", "t", "r", "i", "a", "l">>, genre_lower) THEN <<"i", "n", "d", "u", "s", "t", "r", "i", "a", "l", " ", "e", "l", "e", "c", "t", "r", "o", "n", "i", "c">>
       ELSE IF Contains(<<"p", "r", "o", "g", "r", "e", "s", "s", "i", "v", "e">>, genre_lower) THEN <<"p", "r", "o", "g", "r", "e", "s", "s", "i", "v", "e", " ", "m", "u", "s", "i", "c">>
       ELSE IF Contains(<<"t", "e", "c", "h">>, genre_lower) \/ Contains(<<"c", "o", "r", "p", "o", "r", "a", "t", "e">>, genre_lower)
       THEN <<"c", "o", "r", "p", "o", "r", "a", "t", "e", " ", "t", "e", "c", "h", " ", "m", "u", "s", "i", "c">>
       ELSE IF Contains(<<"e", "p", "i", "c">>, genre_lower) THEN <<"e", "p", "i", "c", " ", "m", "u", "s", "i", "c">>
       ELSE LET words == Take(SplitWords(genre_lower), 2)
            IN IF words # <<>> THEN Join(words, <<" ">>) ELSE <<"m", "u", "s", "i", "c">>

\* the filter expression process_music_tracks builds from req.duration
search_filters(r) ==
    IF r.duration # <<>> /\ r.duration[1] # 0 /\ r.duration[1] < 60
    THEN "duration:[10 TO 120] tag:music"
    ELSE IF r.duration # <<>> /\ r.duration[1] # 0 /\ r.duration[1] >= 60
    THEN "duration:[30 TO 300] tag:music OR tag:loop"
    ELSE "tag:music"

(***************************************************************************)
(* The collaborators: search_freesound and download_sound                  *)
(***************************************************************************)
\* search_freesound: the results of the response, and [] for a request that
\* failed (except Exception: return [])
search_freesound(response) ==
    IF response.ok THEN response.results ELSE <<>>

DownloadRaises(outcome) ==
    IF outcome = "ok" THEN "True"
    ELSE IF outcome = "no_preview" THEN "False"
    ELSE "raise"

\* download_sound: True after the files are written, False without a preview
\* URL and False for anything that failed (except Exception: return False)
download_sound(outcome) == IF outcome = "ok" THEN "True" ELSE "False"

DownloadOutcomes == {"ok", "no_preview", "http_error"}

(***************************************************************************)
(* Scoring and selection inside process_music_tracks                       *)
(***************************************************************************)
\* scored_results.append((score, sound)) for sound in results
score_all(r, res) ==
    [i \in 1..Len(res) |-> [score |-> music_score_match(r, res[i]).total, sound |-> res[i]]]

\* insert e behind every entry whose score is not lower than e's
InsertByScore(sorted, e) ==
    LET ahead == Cardinality({i \in 1..Len(sorted) : sorted[i].score >= e.score})
    IN SubSeq(sorted, 1, ahead) \o <<e>> \o SubSeq(sorted, ahead + 1, Len(sorted))

RECURSIVE StableDescending(_)
StableDescending(list) ==
    IF list = <<>> THEN <<>>
    ELSE InsertByScore(StableDescending(SubSeq(list, 1, Len(list) - 1)), list[Len(list)])

Reverse(list) == [i \in 1..Len(list) |-> list[Len(list) + 1 - i]]

\* insert e behind every entry whose score is lower or equal (ascending)
InsertAscending(sorted, e) ==
    LET ahead == Cardinality({i \in 1..Len(sorted) : sorted[i].score <= e.score})
    IN SubSeq(sorted, 1, ahead) \o <<e>> \o SubSeq(sorted, ahead + 1, Len(sorted))

RECURSIVE StableAscending(_)
StableAscending(list) ==
    IF list = <<>> THEN <<>>
    ELSE InsertAscending(StableAscending(SubSeq(list, 1, Len(list) - 1)), list[Len(list)])

\* sorted ascending and then reversed: equal scores come out back to front
SortThenReverse(list) == Reverse(StableAscending(list))

\* scored_results.sort(reverse=True, key=lambda x: x[0]): descending by
\* score; list.sort is stable, and reverse=True keeps that stability
sort_by_score(list) == StableDescending(list)

NeverContinue(res) == "download"

\* "if not results: continue"
after_search(res) == IF res = <<>> THEN "next" ELSE "download"

\* a report that lists every scored candidate, not the first n only
ReportAllScored(r, query, scored, n) ==
    [track_number |-> r.track_num,
     search_query |-> query,
     top_matches |->
        [i \in 1..Len(scored) |->
            [rank |-> i, score |-> scored[i].score,
             sound_id |-> scored[i].sound.id, name |-> scored[i].sound.name]]]

\* the scoring report of one track
scoring_report(r, query, scored, n) ==
    [track_number |-> r.track_num,
     search_query |-> query,
     top_matches |->
        [i \in 1..Len(Take(scored, n)) |->
            [rank |-> i, score |-> scored[i].score,
             sound_id |-> scored[i].sound.id, name |-> scored[i].sound.name]]]

(***************************************************************************)
(* Inputs of the run                                                       *)
(***************************************************************************)
MaxTracks == 2
MaxTopN == 2
MaxResults == 3

\* the tracks of the document, in document order
TrackPool ==
    << [genre |-> <<"o", "r", "c", "h", "e", "s", "t", "r", "a", "l", " ", "c", "i", "n", "e", "m", "a", "t", "i", "c">>, mood |-> <<"e", "p", "i", "c", ",", " ", "t", "r", "i", "u", "m", "p", "h", "a", "n", "t">>,
        instruments |-> <<"s", "t", "r", "i", "n", "g", "s", ",", " ", "b", "r", "a", "s", "s">>, duration |-> <<30>>],
       [genre |-> <<"E", "l", "e", "c", "t", "r", "o", "n", "i", "c", " ", "P", "o", "p">>, mood |-> <<"u", "p", "b", "e", "a", "t">>,
        instruments |-> <<"s", "y", "n", "t", "h">>, duration |-> <<90>>],
       [genre |-> <<"a", "m", "b", "i", "e", "n", "t", " ", "d", "r", "o", "n", "e", " ", "p", "a", "d">>, mood |-> <<"c", "a", "l", "m">>,
        instruments |-> <<"p", "a", "d">>, duration |-> <<0>>] >>

Track(i) ==
    LET t == TrackPool[((i - 1) % Len(TrackPool)) + 1]
    IN [track_num |-> i, genre |-> t.genre, mood |-> t.mood,
        instruments |-> t.instruments, duration |-> t.duration]

\* parse_music_requirements: zero to MaxTracks tracks
TrackDocuments == {[i \in 1..n |-> Track(i)] : n \in 0..MaxTracks}

\* what the search service can hold: 2 and 3 always score the same
SoundPool ==
    { ScenarioSound,
      [id |-> 2, name |-> <<"O", "r", "c", "h", "e", "s", "t", "r", "a", "l", " ", "T", "h", "e", "m", "e">>, tags |-> <<>>,
       description |-> <<>>, duration |-> 32, avg_rating |-> 45,
       num_ratings |-> 20, license |-> <<"C", "C", "0">>],
      [id |-> 3, name |-> <<"C", "i", "n", "e", "m", "a", "t", "i", "c", " ", "T", "h", "e", "m", "e">>, tags |-> <<>>,
       description |-> <<>>, duration |-> 32, avg_rating |-> 45,
       num_ratings |-> 20, license |-> <<"C", "C", "0">>],
      [id |-> 4, name |-> <<"G", "l", "a", "s", "s", " ", "S", "h", "a", "t", "t", "e", "r", "i", "n", "g", " ", "S", "o", "u", "n", "d">>, tags |-> <<>>,
       description |-> <<>>, duration |-> 60, avg_rating |-> 0,
       num_ratings |-> 0, license |-> <<>>] }

\* result lists of at most n sounds, no sound twice
RECURSIVE ResultLists(_)
ResultLists(n) ==
    IF n = 0 THEN {<<>>}
    ELSE LET shorter == ResultLists(n - 1)
         IN shorter \cup
            UNION {{Append(l, s) :
                      s \in {x \in SoundPool : \A i \in 1..Len(l) : l[i] # x}} :
                   l \in shorter}

SearchResponses ==
    {[ok |-> TRUE, results |-> l] : l \in ResultLists(MaxResults)}
    \cup {[ok |-> FALSE, results |-> <<>>]}

(***************************************************************************)
(* process_music_tracks                                                    *)
(***************************************************************************)
Init ==
    /\ requirements \in TrackDocuments
    /\ top_n \in 1..MaxTopN
    /\ idx = 0 /\ pc = "start"
    /\ results = <<>> /\ scored_results = <<>> /\ match_i = 0
    /\ downloads = <<>> /\ search_log = <<>> /\ report_files = {}
    /\ last_report = None
    /\ IdleBpm /\ IdleDur /\ IdleScore /\ IdleSfx

\* "if not requirements: return", else enter the loop
Start ==
    /\ pc = "start"
    /\ IF requirements = <<>>
       THEN pc' = "done" /\ idx' = 0
       ELSE pc' = "search" /\ idx' = 1
    /\ UNCHANGED <<requirements, top_n, results, scored_results, match_i,
                   downloads, search_log, report_files, last_report,
                   bpmVars, durVars, scoreVars, sfxVars>>

\* the loop body up to the sort: query, filters, search, "if not results:
\* continue", score every result, sort
Search ==
    /\ pc = "search"
    /\ \E response \in SearchResponses :
         LET r == requirements[idx]
             found == search_freesound(response)
         IN /\ search_log' = Append(search_log,
                  [track |-> r.track_num, query |-> get_search_query(r),
                   filters |-> search_filters(r)])
            /\ results' = found
            /\ pc' = after_search(found)
            /\ scored_results' = sort_by_score(score_all(r, found))
    /\ match_i' = 1
    /\ UNCHANGED <<requirements, top_n, idx, downloads, report_files,
                   last_report, bpmVars, durVars, scoreVars, sfxVars>>

\* one pass of "for i, (score, sound) in enumerate(scored_results[:top_n], 1)";
\* an exception that left download_sound would leave process_music_tracks too
Download ==
    /\ pc = "download"
    /\ match_i <= Len(Take(scored_results, top_n))
    /\ \E outcome \in DownloadOutcomes :
         LET returned == download_sound(outcome)
         IN IF returned = "raise"
            THEN pc' = "crashed" /\ UNCHANGED <<downloads, match_i>>
            ELSE /\ downloads' = Append(downloads,
                      [match |-> match_i,
                       sound_id |-> scored_results[match_i].sound.id,
                       saved |-> returned = "True"])
                 /\ match_i' = match_i + 1
                 /\ pc' = "download"
    /\ UNCHANGED <<requirements, top_n, idx, results, scored_results,
                   search_log, report_files, last_report,
                   bpmVars, durVars, scoreVars, sfxVars>>

\* "Save scoring report", after the download loop
SaveReport ==
    /\ pc = "download"
    /\ match_i > Len(Take(scored_results, top_n))
    /\ last_report' = scoring_report(requirements[idx],
                          get_search_query(requirements[idx]), scored_results, top_n)
    /\ report_files' = report_files \cup {requirements[idx].track_num}
    /\ pc' = "next"
    /\ UNCHANGED <<requirements, top_n, idx, results, scored_results, match_i,
                   downloads, search_log, bpmVars, durVars, scoreVars, sfxVars>>

\* "for req in requirements": the next requirement, or the end of the loop;
\* the body's locals start afresh
NextTrack ==
    /\ pc = "next"
    /\ IF idx < Len(requirements)
       THEN idx' = idx + 1 /\ pc' = "search"
       ELSE idx' = idx /\ pc' = "done"
    /\ results' = <<>> /\ scored_results' = <<>> /\ match_i' = 0
    /\ downloads' = <<>> /\ last_report' = None
    /\ UNCHANGED <<requirements, top_n, search_log, report_files,
                   bpmVars, durVars, scoreVars, sfxVars>>

Next == Start \/ Search \/ Download \/ SaveReport \/ NextTrack
Spec == Init /\ [][Next]_vars

(***************************************************************************)
(* Claims about the run (under Spec)                                       *)
(***************************************************************************)
\* the loop has scored and sorted the results of the requirement it is at
Selected == pc \in {"download", "next"} /\ results # <<>>
Position(s) == CHOOSE i \in 1..Len(results) : results[i] = s

\* C2: the scored candidates of a requirement are in descending order of
\* score, and two candidates of equal score are in the order the search
\* returned them; the downloads and the report follow that order.
C2_StableDescending ==
    Selected =>
        /\ Len(scored_results) = Len(results)
        /\ {scored_results[i].sound : i \in 1..Len(scored_results)}
             = {results[i] : i \in 1..Len(results)}
        /\ \A i \in 1..Len(scored_results) :
             scored_results[i].score
               = music_score_match(requirements[idx], scored_results[i].sound).total
        /\ \A i, j \in 1..Len(scored_results) :
             i < j =>
               /\ scored_results[i].score >= scored_results[j].score
               /\ scored_results[i].score = scored_results[j].score
                    => Position(scored_results[i].sound) < Position(scored_results[j].sound)
        /\ \A k \in 1..Len(downloads) :
             downloads[k].sound_id = scored_results[k].sound.id
        /\ last_report # None =>
             \A k \in 1..Len(last_report.top_matches) :
                last_report.top_matches[k].sound_id = scored_results[k].sound.id

\* the search returned 2, 3, 1: sound 1 scores higher and moves to the front,
\* 2 and 3 tie and keep their order
C2_Witness ==
    /\ Selected /\ last_report # None
    /\ [i \in 1..Len(results) |-> results[i].id] = <<2, 3, 1>>
    /\ [i \in 1..Len(scored_results) |-> scored_results[i].sound.id] = <<1, 2, 3>>
    /\ scored_results[2].score = scored_results[3].score
    /\ scored_results[1].score > scored_results[2].score

\* the iteration at idx ended on a search without candidates
EndedEmpty == pc = "next" /\ results = <<>>

SearchedCount ==
    IF pc = "start" \/ requirements = <<>> THEN 0
    ELSE IF pc = "search" THEN idx - 1
    ELSE idx

\* the loop can take its next step: a search needs only a requirement to
\* search for, whatever the service then answers; the download loop either
\* has a match left to download or is over, and the report is saved
CanStep ==
    /\ pc = "start" => ENABLED Start
    /\ pc = "search" => idx \in 1..Len(requirements)
    /\ pc = "download" =>
         /\ idx \in 1..Len(requirements)
         /\ match_i \in 1..(Len(Take(scored_results, top_n)) + 1)
    /\ pc = "next" => ENABLED NextTrack

\* C4: an empty or failed search and a failed download never stop the run:
\* the loop is never stuck before its end, the searches issued are those of
\* the requirements in document order, at the end every requirement has been
\* searched, and the candidates of a non-empty search are all scored and
\* sorted.
C4_RunContinues ==
    /\ pc \in {"start", "search", "download", "next", "done"}
    /\ CanStep
    /\ Len(search_log) = SearchedCount
    /\ \A k \in 1..Len(search_log) : search_log[k].track = requirements[k].track_num
    /\ pc = "done" => Len(search_log) = Len(requirements)
    /\ Selected => Len(scored_results) = Len(results)

\* the first requirement's search gave nothing, a download of the second one
\* failed, and the loop is still running
C4_Witness ==
    /\ idx = 2 /\ pc = "download"
    /\ 1 \notin report_files
    /\ \E k \in 1..Len(downloads) : ~downloads[k].saved
    /\ Len(search_log) = 2

(***************************************************************************)
(* score_match over candidates as the search service returns them          *)
(*                                                                         *)
(* A candidate is a JSON object: a key can be absent, present with null    *)
(* (None), or present with a value.  Each field of a dict-shaped candidate *)
(* is [state, val]; val is read only when state is "value".                *)
(***************************************************************************)
FieldKeys == {"name", "tags", "description", "duration", "avg_rating",
              "num_ratings", "license"}

\* the second argument of each sound_data.get(key, default)
FieldDefault ==
    [name |-> <<>>, tags |-> <<>>, description |-> <<>>, duration |-> 0,
     avg_rating |-> 0, num_ratings |-> 0, license |-> <<>>]

\* sound_data.get(key, default): the default only when the key is absent
dict_get(d, key) == IF d[key].state = "absent" THEN FieldDefault[key] ELSE d[key].val

\* sound_data.get(key, default) is None: the key is there and holds null
is_none(d, key) == d[key].state = "null"

\* the locals score_match goes on with, when no None was operated on
get_fields(d) ==
    [id |-> d.id, name |-> dict_get(d, "name"), tags |-> dict_get(d, "tags"),
     description |-> dict_get(d, "description"),
     duration |-> dict_get(d, "duration"),
     avg_rating |-> dict_get(d, "avg_rating"),
     num_ratings |-> dict_get(d, "num_ratings"),
     license |-> dict_get(d, "license")]

Raised == [raised |-> TRUE, result |-> None]
Returned(r) == [raised |-> FALSE, result |-> r]

\* MusicRequirement.score_match on a dict: None.lower() and iterating None
\* raise at once; None > 0 raises where the comparison is evaluated
\* ("self.duration and duration > 0" short-circuits); None / 10 raises
\* inside the rating branch; 'CC0' in None raises
music_score_match_dict(r, d) ==
    IF is_none(d, "name") \/ is_none(d, "tags") \/ is_none(d, "description")
    THEN Raised
    ELSE IF r.duration # <<>> /\ r.duration[1] # 0 /\ is_none(d, "duration")
    THEN Raised
    ELSE IF is_none(d, "avg_rating") THEN Raised
    ELSE IF dict_get(d, "avg_rating") > 0 /\ is_none(d, "num_ratings") THEN Raised
    ELSE IF is_none(d, "license") THEN Raised
    ELSE Returned(music_score_match(r, get_fields(d)))

\* SoundEffectRequirement.score_match on a dict: it reads name, tags,
\* description and avg_rating only; None / 5.0 raises
sfx_score_match_dict(d, effect) ==
    IF is_none(d, "name") \/ is_none(d, "tags") \/ is_none(d, "description")
    THEN Raised
    ELSE IF is_none(d, "avg_rating") THEN Raised
    ELSE Returned(sfx_score_match(get_fields(d), effect))

(***************************************************************************)
(* Inputs: a complete candidate with some of its fields taken away         *)
(***************************************************************************)
\* how a field is without value: no key, null, or '' / [] / 0
MissingKinds == {"absent", "null", "empty"}

Field(sd, key, missing, kind) ==
    IF key \notin missing THEN [state |-> "value", val |-> sd[key]]
    ELSE IF kind = "empty" THEN [state |-> "value", val |-> FieldDefault[key]]
    ELSE [state |-> kind, val |-> FieldDefault[key]]

SparseSound(sd, missing, kind) ==
    [id |-> sd.id,
     name |-> Field(sd, "name", missing, kind),
     tags |-> Field(sd, "tags", missing, kind),
     description |-> Field(sd, "description", missing, kind),
     duration |-> Field(sd, "duration", missing, kind),
     avg_rating |-> Field(sd, "avg_rating", missing, kind),
     num_ratings |-> Field(sd, "num_ratings", missing, kind),
     license |-> Field(sd, "license", missing, kind)]

DescribedSound == [ScenarioSound EXCEPT !.description = <<"B", "r", "a", "s", "s", " ", "a", "n", "d", " ", "s", "t", "r", "i", "n", "g", "s">>]

GlassSound ==
    [id |-> 4, name |-> <<"G", "l", "a", "s", "s", " ", "B", "r", "e", "a", "k">>, tags |-> <<<<"g", "l", "a", "s", "s">>, <<"B", "r", "e", "a", "k", "i", "n", "g">>>>,
     description |-> <<"A", " ", "g", "l", "a", "s", "s", " ", "b", "r", "e", "a", "k">>, duration |-> 2, avg_rating |-> 50,
     num_ratings |-> 3, license |-> <<"C", "C", "0">>]

SparseMusicSounds ==
    {SparseSound(DescribedSound, missing, kind) :
        missing \in SUBSET FieldKeys, kind \in MissingKinds}

SparseEffectSounds ==
    {SparseSound(GlassSound, missing, kind) :
        missing \in SUBSET FieldKeys, kind \in MissingKinds}

\* with a target duration and without one
FieldRequirements == {ScenarioRequirement, [ScenarioRequirement EXCEPT !.duration = <<>>]}
FieldEffectNames == {<<"g", "l", "a", "s", "s", " ", "b", "r", "e", "a", "k">>, <<"G", "l", "a", "s", "s">>}

(***************************************************************************)
(* Specification of the two scoring functions over dict candidates         *)
(***************************************************************************)
InitFields ==
    /\ \/ /\ req \in FieldRequirements /\ sound \in SparseMusicSounds
          /\ effect_name = <<>>
       \/ /\ req = None /\ sound \in SparseEffectSounds
          /\ effect_name \in FieldEffectNames
    /\ score = None /\ prev = None
    /\ IdleBpm /\ IdleDur /\ IdleRun /\ IdleSfx

\* req.score_match(sound), sound a dict of the search response
MusicScoreMatchDict ==
    /\ req # None /\ score = None
    /\ score' = music_score_match_dict(req, sound)
    /\ UNCHANGED <<req, effect_name, sound, prev, bpmVars, durVars, runVars, sfxVars>>

\* req.score_match(sound, effect), sound a dict of the search response
SfxScoreMatchDict ==
    /\ req = None /\ score = None
    /\ score' = sfx_score_match_dict(sound, effect_name)
    /\ UNCHANGED <<req, effect_name, sound, prev, bpmVars, durVars, runVars, sfxVars>>

NextFields == MusicScoreMatchDict \/ SfxScoreMatchDict
SpecFields == InitFields /\ [][NextFields]_vars

(***************************************************************************)
(* Claim about missing candidate fields (under SpecFields)                 *)
(***************************************************************************)
\* the field is absent or carries no value: no key, null, or '' / [] / 0
NoValue(key) ==
    sound[key].state # "value" \/ sound[key].val = FieldDefault[key]

\* the field is present and holds null
HoldsNone(key) == sound[key].state = "null"

\* keywords found in the candidate's name or description, tags left aside
HitsOutsideTags(keywords) ==
    Cardinality({i \in 1..Len(keywords) :
        \/ Contains(keywords[i], Lower(dict_get(sound, "name")))
        \/ Contains(keywords[i], Lower(dict_get(sound, "description")))})

\* each factor whose field has no value adds nothing to the music score
MusicFactorsZero(s) ==
    /\ NoValue("tags") =>
         s.genre = Min(Points(25), Points(5) * HitsOutsideTags(genre_keywords(req)))
    /\ (NoValue("name") /\ NoValue("tags") /\ NoValue("description")) =>
         s.instruments = 0
    /\ NoValue("duration") => s.duration = s.instruments
    /\ (NoValue("avg_rating") \/ NoValue("num_ratings")) => s.rating = s.duration
    /\ NoValue("license") => s.license = s.rating

\* each factor whose field has no value adds nothing to the sound-effect score
SfxFactorsZero(s) ==
    /\ NoValue("name") => s.name = 0
    /\ NoValue("tags") => s.tags = s.name
    /\ NoValue("description") => s.description = s.tags
    /\ NoValue("avg_rating") => s.quality = s.description

\* C11: both scoring functions are total over candidates with missing or
\* absent fields: a candidate with no tags, no description, no duration, no
\* license or no rating (the field absent or carrying no value) is scored
\* without any failure, and each such factor contributes zero to the score.
C11_TotalOnMissingFields ==
    score # None =>
        /\ ~score.raised
        /\ req # None => MusicFactorsZero(score.result)
        /\ req = None => SfxFactorsZero(score.result)

\* what the code does: a field that is absent, or holds '' / [] / 0, is
\* scored without failure and adds nothing; a field that holds null makes
\* score_match raise as soon as the null is operated on.
ScoreMatchRaisesOnNone ==
    score # None =>
        /\ score.raised <=>
             IF req # None
             THEN \/ \E k \in {"name", "tags", "description", "avg_rating", "license"} :
                       HoldsNone(k)
                  \/ HoldsNone("duration") /\ req.duration # <<>>
                  \/ HoldsNone("num_ratings") /\ sound.avg_rating.state = "value"
                       /\ sound.avg_rating.val > 0
             ELSE \E k \in {"name", "tags", "description", "avg_rating"} : HoldsNone(k)
        /\ ~score.raised =>
             IF req # None THEN MusicFactorsZero(score.result)
             ELSE SfxFactorsZero(score.result)

\* the candidate's description is null and the call raised
NoneDescriptionRaised ==
    /\ score # None /\ score.raised
    /\ \A k \in FieldKeys : HoldsNone(k) <=> k = "description"

\* a candidate with none of the seven keys scored 0 without failure
AbsentFieldsScoredZero ==
    /\ score # None /\ ~score.raised
    /\ \A k \in FieldKeys : sound[k].state = "absent"
    /\ score.result.total = 0

(***************************************************************************)
(* Claim about the duration step (under SpecScore)                         *)
(***************************************************************************)
\* what the duration step added to the running score
DurationAdded == score.duration - score.instruments

\* the tier of d = |target - candidate duration|
DurationTier(d) ==
    IF d < 5 THEN Points(10)
    ELSE IF d < 10 THEN Points(7)
    ELSE IF d < 20 THEN Points(4)
    ELSE 0

\* C12: the duration step of the music score is applied whenever the
\* requirement has a target duration and the candidate reports a nonzero
\* duration, and only then: with d = |target - candidate duration| it adds
\* 10 if d < 5, 7 if 5 <= d < 10, 4 if 10 <= d < 20 and 0 otherwise; when
\* the candidate duration is absent or zero it adds nothing.
C12_DurationTiers ==
    (score # None /\ score.fn = "music") =>
        DurationAdded =
            IF req.duration # <<>> /\ sound.duration # 0
            THEN DurationTier(Abs(req.duration[1] - sound.duration))
            ELSE 0

\* what the code does: "if self.duration" is false for a target of 0 as it
\* is for None, so a requirement whose time range is zero seconds long gets
\* no duration points, whatever the candidate's duration
DurationStepSkipsZeroTarget ==
    (score # None /\ score.fn = "music") =>
        DurationAdded =
            IF req.duration # <<>> /\ req.duration[1] # 0 /\ sound.duration > 0
            THEN DurationTier(Abs(req.duration[1] - sound.duration))
            ELSE 0

\* a target of 0 seconds and a candidate 3 seconds long: nothing was added
ZeroTargetCloseCandidate ==
    /\ score # None /\ score.fn = "music"
    /\ req.duration = <<0>> /\ sound.duration = 3
    /\ DurationAdded = 0

(***************************************************************************)
(* Claim about the report and the downloads (under Spec)                   *)
(***************************************************************************)
\* the iteration at idx has made its downloads and written its report
Reported == pc = "next" /\ results # <<>>

\* C13: for every music requirement whose search returns k >= 1 candidates
\* and every caller-supplied N >= 1, the report's top_matches has exactly
\* min(N, k) entries, their ranks are 1, 2, ..., min(N, k) in list order,
\* their scores are non-increasing, and the candidates handed to the
\* download collaborator are exactly the candidates of those entries, in the
\* same order, with match index equal to the rank; a failed download does
\* not remove the entry from the report.
C13_ReportMatchesDownloads ==
    /\ Reported =>
         LET top == last_report.top_matches
         IN /\ Len(top) = Min(top_n, Len(results))
            /\ \A k \in 1..Len(top) :
                 /\ top[k].rank = k
                 /\ \E i \in 1..Len(results) :
                      /\ results[i].id = top[k].sound_id
                      /\ results[i].name = top[k].name
                      /\ music_score_match(requirements[idx], results[i]).total
                           = top[k].score
            /\ \A j, k \in 1..Len(top) : j < k => top[j].score >= top[k].score
            /\ Len(downloads) = Len(top)
            /\ \A k \in 1..Len(top) :
                 /\ downloads[k].sound_id = top[k].sound_id
                 /\ downloads[k].match = top[k].rank
    /\ (pc = "download" /\ top_n >= 1) =>
         /\ Len(downloads) = match_i - 1
         /\ Len(downloads) <= Min(top_n, Len(results))
         /\ \A k \in 1..Len(downloads) : downloads[k].match = k

\* three candidates and N = 2: two entries, the first one's download failed
\* and it is in the report all the same
C13_Witness ==
    /\ Reported
    /\ top_n = 2 /\ Len(results) = 3
    /\ Len(last_report.top_matches) = 2
    /\ ~downloads[1].saved /\ downloads[2].saved
    /\ last_report.top_matches[1].sound_id = downloads[1].sound_id

\* one candidate and N = 2: min(N, k) is k
FewerCandidatesThanN ==
    /\ Reported
    /\ top_n = 2 /\ Len(results) = 1
    /\ Len(last_report.top_matches) = 1 /\ Len(downloads) = 1

(***************************************************************************)
(* VideoProductionAssistant.parse_sfx_requirements                         *)
(*                                                                         *)
(* The document is text; the two regular expressions are computed on it    *)
(* the way re computes them.                                               *)
(***************************************************************************)
NL == "\n"
SectionHeading == <<"#", "#", " ", "S", "o", "u", "n", "d", " ", "E", "f", "f", "e", "c", "t", "s", " ", "L", "i", "b", "r", "a", "r", "y">>
CategoryMark == <<"#", "#", "#", " ">>
ChecklistMark == <<"-", " ", "[", " ", "]", " ">>

StartsWithAt(s, sub, p) ==
    p + Len(sub) - 1 <= Len(s) /\ SubSeq(s, p, p + Len(sub) - 1) = sub

\* the lookahead (?=##|$) at position e: "##" follows, or the text ends
\* there, or only its last newline follows
SectionEndsAt(content, e) ==
    \/ StartsWithAt(content, <<"#", "#">>, e)
    \/ e = Len(content) + 1
    \/ e = Len(content) /\ content[e] = NL

\* re.search(r'## Sound Effects Library(.+?)(?=##|$)', content, re.DOTALL):
\* group 1 is the shortest text of at least one character after the heading
\* that ends where the lookahead holds
RECURSIVE sfx_section(_, _)
sfx_section(content, from) ==
    LET p == FindFrom(SectionHeading, content, from)
    IN IF p = 0 THEN [ok |-> FALSE, text |-> <<>>]
       ELSE LET start == p + Len(SectionHeading)
                ends == {e \in (start + 1)..(Len(content) + 1) : SectionEndsAt(content, e)}
            IN IF ends = {} THEN sfx_section(content, p + 1)
               ELSE [ok |-> TRUE,
                     text |-> SubSeq(content, start,
                                 (CHOOSE e \in ends : \A f \in ends : e <= f) - 1)]

\* position of the first newline of t at or after p, 0 if none
NewlineFrom(t, p) == FindFrom(<<NL>>, t, p)

\* (?:- \[ \] .+?\n)+ from position p: the checklist lines that follow one
\* another, each with at least one character after the mark
RECURSIVE checklist_lines(_, _)
checklist_lines(t, p) ==
    LET n == NewlineFrom(t, p + Len(ChecklistMark))
    IN IF StartsWithAt(t, ChecklistMark, p) /\ n > p + Len(ChecklistMark)
       THEN LET rest == checklist_lines(t, n + 1)
            IN [effects |-> <<SubSeq(t, p + Len(ChecklistMark), n - 1)>> \o rest.effects,
                end |-> rest.end]
       ELSE [effects |-> <<>>, end |-> p]

\* r'### (.+?)\n((?:- \[ \] .+?\n)+)' matched at position q
category_at(t, q) ==
    LET n == NewlineFrom(t, q + Len(CategoryMark))
        lines == IF n = 0 THEN [effects |-> <<>>, end |-> q]
                 ELSE checklist_lines(t, n + 1)
    IN [ok |-> n > q + Len(CategoryMark) /\ lines.effects # <<>>,
        category |-> IF n = 0 THEN <<>> ELSE Strip(SubSeq(t, q + Len(CategoryMark), n - 1)),
        effects |-> lines.effects,
        end |-> lines.end]

\* re.finditer(category_pattern, sfx_content): the matches from left to
\* right, each search going on where the last match ended; a requirement is
\* SoundEffectRequirement(category, effects)
RECURSIVE find_categories(_, _)
find_categories(t, from) ==
    LET q == FindFrom(CategoryMark, t, from)
    IN IF q = 0 THEN <<>>
       ELSE LET m == category_at(t, q)
            IN IF m.ok
               THEN <<[category |-> m.category, effects |-> m.effects]>>
                        \o find_categories(t, m.end)
               ELSE find_categories(t, q + 1)

\* the categories wherever they stand in the text
CategoriesOfWholeText(content) == find_categories(content, 1)

\* parse_sfx_requirements: no section gives [], else the categories found
\* in the section's text
parse_sfx_requirements(content) ==
    LET sfx_section_match == sfx_section(content, 1)
    IN IF ~sfx_section_match.ok THEN <<>>
       ELSE find_categories(sfx_section_match.text, 1)

(***************************************************************************)
(* Inputs: documents with a sound-effect section                           *)
(***************************************************************************)
MaxCategories == 2
MaxEffects == 6

RECURSIVE Flatten(_)
Flatten(seqs) == IF seqs = <<>> THEN <<>> ELSE Head(seqs) \o Flatten(Tail(seqs))

\* the k-th effect name and the c-th category name of a document
EffectName(k) == <<"e", Digits[(k % 10) + 1]>>
CategoryName(c) == <<"C", Digits[(c % 10) + 1]>>

ChecklistLine(effect) == ChecklistMark \o effect \o <<NL>>

\* "### <category>", its checklist lines and an empty line
CategoryBlock(c, n) ==
    CategoryMark \o CategoryName(c) \o <<NL>>
        \o Flatten([k \in 1..n |-> ChecklistLine(EffectName(k))]) \o <<NL>>

\* how many effects a category lists: one, the limit, and more than the limit
EffectCounts == {1, MaxEffects - 1, MaxEffects}

\* the number of effects of each category of a document
DocumentShapes ==
    UNION {[1..n -> EffectCounts] : n \in 0..MaxCategories}

\* what stands before the section's heading, between the heading and the
\* first category, and after the last category
DocumentLeads == {<<>>, <<"#", " ", "M", "u", "s", "i", "c">> \o <<NL, NL>>}
HeadingGaps == {<<NL>>, <<NL, NL>>}
DocumentTails == {<<>>, <<"#", "#", " ", "N", "o", "t", "e", "s">> \o <<NL>>}

SfxDocument(lead, gap, shape, tail) ==
    lead \o SectionHeading \o gap
        \o Flatten([c \in 1..Len(shape) |-> CategoryBlock(c, shape[c])]) \o tail

\* documents with the section, and one without it
SfxDocuments ==
    {SfxDocument(lead, gap, shape, tail) :
        lead \in DocumentLeads, gap \in HeadingGaps,
        shape \in DocumentShapes, tail \in DocumentTails}
    \cup {<<"#", " ", "M", "u", "s", "i", "c">> \o <<NL>> \o CategoryBlock(1, 1)}

(***************************************************************************)
(* VideoProductionAssistant.process_sound_effects                          *)
(***************************************************************************)
EffectLimit == 5

\* req.effects[:5]
effects_to_process(r) == Take(r.effects, EffectLimit)

\* what the search service holds for every effect it knows
SfxPool ==
    << [id |-> 1, name |-> <<"R", "a", "i", "n">>, tags |-> <<>>, description |-> <<>>,
        duration |-> 4, avg_rating |-> 50, num_ratings |-> 3, license |-> <<"C", "C", "0">>],
       [id |-> 2, name |-> <<"e", "1", " ", "t", "a", "k", "e">>, tags |-> <<<<"e", "1">>>>, description |-> <<>>,
        duration |-> 2, avg_rating |-> 25, num_ratings |-> 1, license |-> <<"C", "C", "0">>] >>

\* the services of a run: whether search requests succeed, the effects the
\* search finds nothing for, and how a download ends
Services ==
    {[ok |-> b, silent |-> s, outcome |-> o] :
        b \in BOOLEAN, s \in {{}, {EffectName(2)}}, o \in DownloadOutcomes}

\* self.search_freesound(effect, page_size=10)
sfx_results(svc, effect) ==
    search_freesound([ok |-> svc.ok,
                      results |-> IF effect \in svc.silent THEN <<>> ELSE SfxPool])

\* scored_results.append((score, sound)) for sound in results
score_effect(effect, res) ==
    [i \in 1..Len(res) |->
        [score |-> sfx_score_match(res[i], effect).total, sound |-> res[i]]]

\* the download_sound calls of one effect: none after "if not results:
\* continue", else one for each of scored_results[:top_n] after the sort
effect_downloads(svc, r, effect, n) ==
    LET res == sfx_results(svc, effect)
        scored == sort_by_score(score_effect(effect, res))
    IN IF res = <<>> THEN <<>>
       ELSE [i \in 1..Len(Take(scored, n)) |->
                [category |-> r.category, effect |-> effect, match |-> i,
                 sound_id |-> scored[i].sound.id,
                 saved |-> download_sound(svc.outcome) = "True"]]

\* the searches of one category: "for effect in req.effects[:5]"
category_searches(r) ==
    [k \in 1..Len(effects_to_process(r)) |->
        [category |-> r.category, effect |-> effects_to_process(r)[k]]]

category_downloads(svc, r, n) ==
    Flatten([k \in 1..Len(effects_to_process(r)) |->
                effect_downloads(svc, r, effects_to_process(r)[k], n)])

InitSfx ==
    /\ document \in SfxDocuments
    /\ service \in Services
    /\ sfx_top_n \in 1..MaxTopN
    /\ sfx_pc = "parse"
    /\ sfx_requirements = <<>>
    /\ category_dirs = <<>> /\ sfx_searches = <<>> /\ sfx_downloads = <<>>
    /\ IdleBpm /\ IdleDur /\ IdleScore /\ IdleRun

\* requirements = self.parse_sfx_requirements()
ParseSfxRequirements ==
    /\ sfx_pc = "parse"
    /\ sfx_requirements' = parse_sfx_requirements(document)
    /\ sfx_pc' = "loop"
    /\ UNCHANGED <<document, service, sfx_top_n, category_dirs, sfx_searches,
                   sfx_downloads, bpmVars, durVars, scoreVars, runVars>>

\* "if not requirements: return", else "for req in requirements": the
\* category directory, then search, score, sort and download for each of the
\* category's first effects
ProcessCategories ==
    /\ sfx_pc = "loop"
    /\ category_dirs' =
         [c \in 1..Len(sfx_requirements) |-> sfx_requirements[c].category]
    /\ sfx_searches' =
         Flatten([c \in 1..Len(sfx_requirements) |->
                     category_searches(sfx_requirements[c])])
    /\ sfx_downloads' =
         Flatten([c \in 1..Len(sfx_requirements) |->
                     category_downloads(service, sfx_requirements[c], sfx_top_n)])
    /\ sfx_pc' = "done"
    /\ UNCHANGED <<document, sfx_requirements, service, sfx_top_n,
                   bpmVars, durVars, scoreVars, runVars>>

NextSfx == ParseSfxRequirements \/ ProcessCategories
SpecSfx == InitSfx /\ [][NextSfx]_vars

\* process_sound_effects from the point where requirements is assigned, for
\* the category lists a working parse_sfx_requirements would return
SfxRequirementLists == {CategoriesOfWholeText(d) : d \in SfxDocuments}

InitSfxLoop ==
    /\ document = <<>>
    /\ service \in Services
    /\ sfx_top_n \in 1..MaxTopN
    /\ sfx_pc = "loop"
    /\ sfx_requirements \in SfxRequirementLists
    /\ category_dirs = <<>> /\ sfx_searches = <<>> /\ sfx_downloads = <<>>
    /\ IdleBpm /\ IdleDur /\ IdleScore /\ IdleRun

SpecSfxLoop == InitSfxLoop /\ [][ProcessCategories]_vars

(***************************************************************************)
(* Claim about sound-effect processing (under SpecSfx)                     *)
(***************************************************************************)
\* the category blocks the document lists after the section's heading
DocumentCategories ==
    LET p == FindFrom(SectionHeading, document, 1)
    IN IF p = 0 THEN <<>>
       ELSE find_categories(SubSeq(document, p + Len(SectionHeading), Len(document)), 1)

\* category c's effect k is one of the category's first five
AmongFirstFive(cats, category, effect) ==
    \E c \in 1..Len(cats) :
        /\ cats[c].category = category
        /\ \E k \in 1..Min(5, Len(cats[c].effects)) : cats[c].effects[k] = effect

\* the first five effects of every category, in document order
FirstFiveInOrder(cats) ==
    Flatten([c \in 1..Len(cats) |->
        [k \in 1..Min(5, Len(cats[c].effects)) |->
            [category |-> cats[c].category, effect |-> cats[c].effects[k]]]])

\* a is b with some of its entries left out
RECURSIVE IsSubsequence(_, _)
IsSubsequence(a, b) ==
    IF a = <<>> THEN TRUE
    ELSE IF b = <<>> THEN FALSE
    ELSE IF Head(a) = Head(b) THEN IsSubsequence(Tail(a), Tail(b))
    ELSE IsSubsequence(a, Tail(b))

\* C14: in sound-effect processing only the first five effect names of each
\* category, in document order, are ever searched, scored and downloaded:
\* for a category that lists more than five effects, no search is issued and
\* no candidate is downloaded for the sixth and later effects, while
\* categories are still all visited in document order.
C14_FirstFivePerCategory ==
    sfx_pc = "done" =>
        /\ IsSubsequence(sfx_searches, FirstFiveInOrder(DocumentCategories))
        /\ \A i \in 1..Len(sfx_downloads) :
             AmongFirstFive(DocumentCategories, sfx_downloads[i].category,
                            sfx_downloads[i].effect)
        /\ category_dirs =
             [c \in 1..Len(DocumentCategories) |-> DocumentCategories[c].category]

\* what the code does: the section's text ends at the first "##" after the
\* heading, and the "###" of the first category is one, so no document
\* yields a category: nothing is visited, searched or downloaded
NothingParsedNothingVisited ==
    /\ sfx_requirements = <<>>
    /\ category_dirs = <<>> /\ sfx_searches = <<>> /\ sfx_downloads = <<>>

\* a document whose section lists two categories, the second with six
\* effects, was processed and nothing was visited
TwoCategoriesNotVisited ==
    /\ sfx_pc = "done"
    /\ Len(DocumentCategories) = 2
    /\ Len(DocumentCategories[2].effects) = 6
    /\ category_dirs = <<>>

\* the loop by itself, entered with the categories in requirements: every
\* category is visited in order, the searches are those of the first five
\* effects of each category in order, and every download is for one of them
LoopTakesFirstFive ==
    sfx_pc = "done" =>
        /\ category_dirs =
             [c \in 1..Len(sfx_requirements) |-> sfx_requirements[c].category]
        /\ sfx_searches = FirstFiveInOrder(sfx_requirements)
        /\ \A i \in 1..Len(sfx_downloads) :
             AmongFirstFive(sfx_requirements, sfx_downloads[i].category,
                            sfx_downloads[i].effect)

\* a category of six effects: five searches, and downloads for the fifth
\* effect but none for the sixth
SixthEffectLeftOut ==
    /\ sfx_pc = "done"
    /\ Len(sfx_requirements) = 1
    /\ Len(sfx_requirements[1].effects) = 6
    /\ Len(sfx_searches) = 5
    /\ \E i \in 1..Len(sfx_downloads) : sfx_downloads[i].effect = EffectName(5)
    /\ \A i \in 1..Len(sfx_downloads) : sfx_downloads[i].effect # EffectName(6)

====
